---- MODULE Spec2Model ----
(***************************************************************************)
(* State-machine model of the address/proximity map tool:                  *)
(*   src/app/GeoApp.py     GUI program (GeoApp.process_user_input)         *)
(*   src/app/GeoAppCmd.py  command-line program (GeoAppCmd.run)            *)
(*                                                                         *)
(* Numbers.  Latitudes and longitudes are integers in hundredths of a      *)
(* degree (1.15 deg is 115, 103.6 deg is 10360).  Distances and thresholds *)
(* are whole kilometres.  An optional value (Python None or a value) is a  *)
(* sequence of length 0 or 1.  A DataFrame is a sequence of rows, each row *)
(* carrying its index label.                                               *)
(***************************************************************************)
EXTENDS Integers, Sequences, FiniteSets, TLC

VARIABLES
    program,             \* which script runs: "GeoApp" or "GeoAppCmd"
    locations_file,      \* content of data/locations.pkl (sequence of records)
    location_data,       \* self.location_data: None or the loaded DataFrame
    nlp,                 \* self.nlp is loaded
    trace,               \* calls made by the handler run (or loop iteration) last executed, in order
    dialogs,             \* messages shown to the user (dialog or console) by that run, in order
    raised,              \* "" or the exception that ended that run
    input_address,       \* the address text that run read
    threshold_text,      \* the threshold text that run read (a sequence of characters)
    proximity_threshold, \* the float parsed by that run, or None
    postal_code,         \* the postal code extracted by that run, or None
    geopy_location,      \* result of the 'geopy' call of that run, or None
    pgeocode_location,   \* result of the 'pgeocode' call of that run, or None
    user_location,       \* (user_latitude, user_longitude) at the end of that run, or None
    filtered_locations,  \* result of filter_locations in that run, or None when not called
    map_file,            \* the map file saved by that run (path and content), or None
    cmd_pc               \* GeoAppCmd.run: "start", "prompt" or "done"

vars == <<program, locations_file,
          location_data, nlp, trace, dialogs, raised, input_address, threshold_text,
          proximity_threshold, postal_code, geopy_location, pgeocode_location,
          user_location, filtered_locations, map_file, cmd_pc>>

(***************************************************************************)
(* Bounds                                                                  *)
(***************************************************************************)
\* longest threshold text typed
MaxLen == 1
\* most rows in the locations file
MaxRows == 2

(***************************************************************************)
(* Helpers                                                                 *)
(***************************************************************************)
None == <<>>
Some(x) == <<x>>

RECURSIVE Count(_, _)
Count(s, e) ==
    IF s = <<>> THEN 0
    ELSE (IF s[1] = e THEN 1 ELSE 0) + Count(Tail(s), e)

\* position of the first e in s, 0 when absent
FirstIndex(s, e) ==
    IF \E i \in 1..Len(s) : s[i] = e
    THEN CHOOSE i \in 1..Len(s) : s[i] = e /\ \A j \in 1..(i - 1) : s[j] # e
    ELSE 0

Abs(x) == IF x < 0 THEN 0 - x ELSE x

(***************************************************************************)
(* Text input and float()                                                  *)
(***************************************************************************)
\* characters a threshold text is typed from; "-", "--" and "2-" are texts
\* float() does not accept
Chars == {"-", "0", "2"}
Digits == {"0", "2"}

Texts == UNION {[1..n -> Chars] : n \in 0..MaxLen}

DigitValue(c) == IF c = "2" THEN 2 ELSE 0

RECURSIVE DigitsValue(_)
DigitsValue(s) ==
    IF s = <<>> THEN 0
    ELSE 10 * DigitsValue(SubSeq(s, 1, Len(s) - 1)) + DigitValue(s[Len(s)])

AllDigits(s) == s # <<>> /\ \A i \in 1..Len(s) : s[i] \in Digits

\* float(text) raises ValueError unless text is an optional sign followed by digits
float_raises(text) ==
    IF text # <<>> /\ text[1] = "-" THEN ~AllDigits(Tail(text)) ELSE ~AllDigits(text)

\* float(text), for a text on which it does not raise
float(text) ==
    IF text[1] = "-" THEN 0 - DigitsValue(Tail(text)) ELSE DigitsValue(text)

\* addresses typed in the address field
Addresses == {"", "ABC Road", "123 ABC Road Singapore 987123"}

\* doc.ents of the trained model on an address: (text, label) pairs
Ents(address) ==
    IF address = "123 ABC Road Singapore 987123"
    THEN << <<"123", "HOUSE_NUMBER">>, <<"ABC Road", "STREET">>, <<"987123", "POSTAL_CODE">> >>
    ELSE IF address = "ABC Road" THEN << <<"ABC Road", "STREET">> >>
    ELSE <<>>

\* the text of the first POSTAL_CODE entity, or None
extract_postal_code(address) ==
    LET ent_list == Ents(address)
        hits == {i \in 1..Len(ent_list) : ent_list[i][2] = "POSTAL_CODE"}
    IN  IF hits = {} THEN None
        ELSE Some(ent_list[CHOOSE i \in hits : \A j \in hits : i <= j][1])

MapTypes == {"Heat Density", "Clusters", "Proximity"}

(***************************************************************************)
(* Input validation                                                        *)
(***************************************************************************)
MsgNoAddress == "Please enter an address."
MsgNoThreshold == "Please enter a proximity threshold."
MsgNotPositive == "Proximity threshold must be a positive number."
MsgNotNumber == "Proximity threshold must be a valid number."
MsgNoCoordinates == "Unable to retrieve coordinates for the address"
MsgNotInSg == "Unable to retrieve valid coordinates in Singapore"
MsgNoLocations == "No locations found within the specified proximity."
MsgInvalidInput == "Invalid input. Please try again."

\* check_user_input with the <= 0 test dropped
check_user_input_no_sign_test(address, threshold) ==
    IF address = "" THEN MsgNoAddress
    ELSE IF threshold = <<>> THEN MsgNoThreshold
    ELSE IF float_raises(threshold) THEN MsgNotNumber
    ELSE ""

\* the message check_user_input shows before returning False, "" when it returns True
check_user_input(address, threshold) ==
    IF address = "" THEN MsgNoAddress
    ELSE IF threshold = <<>> THEN MsgNoThreshold
    ELSE IF float_raises(threshold) THEN MsgNotNumber
    ELSE IF float(threshold) <= 0 THEN MsgNotPositive
    ELSE ""

(***************************************************************************)
(* Coordinates and the bounding box                                        *)
(***************************************************************************)
min_lat_sg == 115
max_lat_sg == 147
min_lng_sg == 10360
max_lng_sg == 10410

\* the float NaN, which pgeocode gives as latitude and longitude of an unknown code
NaN == -1

\* a <= b on floats: false when either is NaN
Le(a, b) == a # NaN /\ b # NaN /\ a <= b

Location(lat, lng) == [latitude |-> lat, longitude |-> lng]

\* check_location_in_sg without the longitude test
check_location_in_sg_lat_only(latitude, longitude) ==
    Le(min_lat_sg, latitude) /\ Le(latitude, max_lat_sg)

check_location_in_sg(latitude, longitude) ==
    /\ Le(min_lat_sg, latitude) /\ Le(latitude, max_lat_sg)
    /\ Le(min_lng_sg, longitude) /\ Le(longitude, max_lng_sg)

\* coordinates a geocoding service may answer with: the south-east corner of
\* the box, a point three steps north of it, and the point one step east of
\* the corner, outside the box by its longitude alone
GeoPoints ==
    { Location(min_lat_sg, max_lng_sg), Location(min_lat_sg + 3, max_lng_sg),
      Location(min_lat_sg, max_lng_sg + 1) }

\* geolocator.geocode(address): a Location, or None
GeopyAnswers == {None} \cup {Some(p) : p \in GeoPoints}

\* geolocator2.query_postal_code(address): a row of coordinates, a row of NaN
\* for an unknown code, or an empty result
PgeocodeAnswers == {None, Some(Location(NaN, NaN))} \cup {Some(p) : p \in GeoPoints}

(***************************************************************************)
(* The location table, distance, filter and sort                           *)
(***************************************************************************)
\* the records a locations file is made of: the first two are two addresses
\* at one place, 2 km from the south-east corner of the box, and the third
\* is 1 km from that corner
Records ==
    { [address |-> "1 ABC Road", postal_code |-> "987121",
       latitude |-> min_lat_sg, longitude |-> max_lng_sg - 2],
      [address |-> "2 ABC Road", postal_code |-> "987122",
       latitude |-> min_lat_sg, longitude |-> max_lng_sg - 2],
      [address |-> "3 XYZ Avenue", postal_code |-> "987123",
       latitude |-> min_lat_sg + 1, longitude |-> max_lng_sg] }

\* the files: up to MaxRows records, each record listed once
Files ==
    UNION { {f \in [1..n -> Records] : \A i, j \in 1..n : f[i] = f[j] => i = j}
            : n \in 0..MaxRows }

\* pd.read_pickle(...)[[columns]]: the rows of the file under a range index
DataFrame(file) ==
    [i \in 1..Len(file) |->
        [index |-> i, address |-> file[i].address, postal_code |-> file[i].postal_code,
         latitude |-> file[i].latitude, longitude |-> file[i].longitude]]

\* the largest difference of two latitudes or of two longitudes in the model
Span == max_lng_sg - min_lng_sg + 1

\* integer part of the square root, tabulated
ISqrt == [n \in 0..(2 * Span * Span) |->
            CHOOSE r \in 0..(2 * Span) : r * r <= n /\ (r + 1) * (r + 1) > n]

\* distance.distance(a, b).km, taken on the plane with one hundredth of a
\* degree for one kilometre, whole kilometres
distance_km(lat1, lng1, lat2, lng2) ==
    LET dlat == Abs(lat1 - lat2)
        dlng == Abs(lng1 - lng2)
    IN  ISqrt[dlat * dlat + dlng * dlng]

\* the row mask with < for <=
keep_row_strict(row, user_latitude, user_longitude, threshold) ==
    distance_km(user_latitude, user_longitude, row.latitude, row.longitude) < threshold

\* the row mask of filter_locations
keep_row(row, user_latitude, user_longitude, threshold) ==
    distance_km(user_latitude, user_longitude, row.latitude, row.longitude) <= threshold

\* the mask applied to the first row of the table only
SelectRowsFirstOnly(df, user_latitude, user_longitude, threshold) ==
    IF df = <<>> THEN <<>>
    ELSE IF keep_row(df[1], user_latitude, user_longitude, threshold)
         THEN <<df[1]>>
         ELSE <<>>

RECURSIVE SelectRows(_, _, _, _)
\* location_data[mask]: the rows the mask keeps, in table order
SelectRows(df, user_latitude, user_longitude, threshold) ==
    IF df = <<>> THEN <<>>
    ELSE LET rest == SelectRows(Tail(df), user_latitude, user_longitude, threshold)
         IN  IF keep_row(df[1], user_latitude, user_longitude, threshold)
             THEN <<df[1]>> \o rest
             ELSE rest

\* GeoAppCmd.filter_locations: the mask alone
filter_locations_cmd(df, user_latitude, user_longitude, threshold) ==
    SelectRows(df, user_latitude, user_longitude, threshold)

\* filtered_locations['proximity'] = ...: the rows with the added column
with_proximity(rows, user_latitude, user_longitude) ==
    [i \in 1..Len(rows) |->
        [index |-> rows[i].index, address |-> rows[i].address,
         postal_code |-> rows[i].postal_code, latitude |-> rows[i].latitude,
         longitude |-> rows[i].longitude,
         proximity |-> distance_km(user_latitude, user_longitude,
                                   rows[i].latitude, rows[i].longitude)]]

RowOrders(n) == {p \in [1..n -> 1..n] : \A i, j \in 1..n : p[i] = p[j] => i = j}

\* sort_values left out: the rows stay in table order
sort_values_none(rows) == {rows}

\* rows.sort_values(by='proximity') with the default kind 'quicksort', which is
\* not a stable sort: every arrangement of the rows in non-decreasing
\* proximity is a possible outcome
sort_values(rows) ==
    { [i \in 1..Len(rows) |-> rows[p[i]]] : p \in
        { q \in RowOrders(Len(rows)) :
            \A i \in 1..(Len(rows) - 1) : rows[q[i]].proximity <= rows[q[i + 1]].proximity } }

\* the mask result taken as the table itself: the added column and the
\* in-place sort are made on self.location_data
table_after_filter_in_place(df, fl) ==
    IF fl = None \/ fl = Some(<<>>) THEN df ELSE fl[1]

\* self.location_data once the handler has run on the table df with the
\* filter result fl (None when filter_locations was not called):
\* location_data[mask] is a new frame, so the 'proximity' column and
\* sort_values(inplace=True) change the result and not the table, and neither
\* print_addresses nor the map functions assign to a frame
table_after_filter(df, fl) == df

\* GeoApp.filter_locations: the possible results
filter_locations(df, user_latitude, user_longitude, threshold) ==
    LET kept == SelectRows(df, user_latitude, user_longitude, threshold)
    IN  IF kept = <<>> THEN {kept}
        ELSE sort_values(with_proximity(kept, user_latitude, user_longitude))


(***************************************************************************)
(* Map rendering                                                           *)
(***************************************************************************)
Layer(kind, at, radius) == [kind |-> kind, at |-> at, radius |-> radius]

Points(rows) == [i \in 1..Len(rows) |-> <<rows[i].latitude, rows[i].longitude>>]

RECURSIVE Distinct(_)
\* the elements of a sequence, each kept at its first place
Distinct(s) ==
    IF s = <<>> THEN <<>>
    ELSE LET front == Distinct(SubSeq(s, 1, Len(s) - 1))
         IN  IF \E i \in 1..Len(front) : front[i] = s[Len(s)]
             THEN front
             ELSE Append(front, s[Len(s)])

\* add_heat_density_to_map: one heat layer over the rows
add_heat_density_to_map(df) == <<Layer("HeatMap", Points(df), 0)>>

\* a marker cluster with one marker per group of rows at the same coordinates
add_clusters_to_map_grouped(df) == <<Layer("MarkerCluster", Distinct(Points(df)), 0)>>

\* add_clusters_to_map: a marker cluster with one marker per row
add_clusters_to_map(df) == <<Layer("MarkerCluster", Points(df), 0)>>

\* add_markers_to_map: one marker per group of rows at the same coordinates
add_markers_to_map(df) == <<Layer("Markers", Distinct(Points(df)), 0)>>

\* add_polyline_to_map: a line to every row at the smallest proximity
add_polyline_to_map(df) ==
    LET nearest == SelectSeq(df, LAMBDA r : \A i \in 1..Len(df) : r.proximity <= df[i].proximity)
    IN  <<Layer("PolyLines", Points(nearest), 0)>>

\* create_folium_map: the layers of the map, in the order they are added;
\* df is None or a DataFrame
create_folium_map(df, address, latitude, longitude, threshold, map_type) ==
    LET records ==
            IF df = None THEN <<>>
            ELSE IF map_type = "Heat Density" THEN add_heat_density_to_map(df[1])
            ELSE IF map_type = "Clusters" THEN add_clusters_to_map(df[1])
            ELSE IF map_type = "Proximity"
                 THEN add_markers_to_map(df[1]) \o add_polyline_to_map(df[1])
            ELSE <<>>
    IN  [ input_address |-> address,
          layers |-> records
                     \o <<Layer("InputMarker", <<<<latitude, longitude>>>>, 0)>>
                     \o <<Layer("Circle", <<<<latitude, longitude>>>>, threshold * 1000)>> ]

\* GeoAppCmd.create_folium_map: grouped markers, input marker, circle
create_folium_map_cmd(df, address, latitude, longitude, threshold) ==
    [ input_address |-> address,
      layers |-> <<Layer("Markers", Distinct(Points(df)), 0)>>
                 \o <<Layer("InputMarker", <<<<latitude, longitude>>>>, 0)>>
                 \o <<Layer("Circle", <<<<latitude, longitude>>>>, threshold * 1000)>> ]

\* the file a GeoApp map is saved to: named after the address and the map type
map_filepath(address, map_type) == <<"map", address, map_type>>

\* the file a GeoAppCmd map is saved to: map.html
map_filepath_cmd == <<"map", "", "">>

\* GeoAppCmd.display_map: map.html, with the map in it
display_map_cmd(df, address, latitude, longitude, threshold) ==
    [ file |-> map_filepath_cmd,
      map |-> create_folium_map_cmd(df, address, latitude, longitude, threshold) ]

\* the parameters of GeoApp.display_map after self
display_map_parameters ==
    <<"df", "input_address", "latitude", "longitude", "proximity_threshold", "map_type">>

\* a call binds when it passes one argument per parameter; otherwise Python
\* raises TypeError before the body runs
call_binds(parameters, arguments) == Len(arguments) = Len(parameters)


(***************************************************************************)
(* Initial state                                                           *)
(***************************************************************************)
Init ==
    /\ program \in {"GeoApp", "GeoAppCmd"}
    /\ locations_file \in Files
    /\ location_data = None
    /\ nlp = FALSE
    /\ trace = <<>>
    /\ dialogs = <<>>
    /\ raised = ""
    /\ input_address = ""
    /\ threshold_text = <<>>
    /\ proximity_threshold = None
    /\ postal_code = None
    /\ geopy_location = None
    /\ pgeocode_location = None
    /\ user_location = None
    /\ filtered_locations = None
    /\ map_file = None
    /\ cmd_pc = "start"

\* what a handler run (or a loop iteration) leaves behind
Ran(tr, dl, ex, thr, pc, geo, pg, ul, fl, fm) ==
    /\ trace' = tr
    /\ dialogs' = dl
    /\ raised' = ex
    /\ proximity_threshold' = thr
    /\ postal_code' = pc
    /\ geopy_location' = geo
    /\ pgeocode_location' = pg
    /\ user_location' = ul
    /\ filtered_locations' = fl
    /\ map_file' = fm

(***************************************************************************)
(* GeoApp.process_user_input                                               *)
(***************************************************************************)
\* the test of line 127 left out
has_location_always(location) == TRUE

\* line 127: user_location is not None
has_location(location) == location # None

\* the retry of line 131 taken whatever the check of line 129 gave
fallback_needed_always(location_in_sg) == TRUE

\* the retry of line 131 never taken
fallback_needed_never(location_in_sg) == FALSE

\* line 131: location_in_sg == False
fallback_needed(location_in_sg) == location_in_sg = FALSE

\* line 137: location_in_sg == True
render_allowed(location_in_sg) == location_in_sg = TRUE

\* the arguments of the display_map call of lines 147-149
display_map_arguments_found(fl, address, lat, lng, thr, map_type) ==
    <<Some(fl), address, lat, lng, thr, map_type>>

\* the arguments of the display_map call of lines 152-154
display_map_arguments_empty(address, lat, lng, thr) ==
    <<None, address, lat, lng, thr>>

\* display_map: the file saved and shown, with the map in it
display_map(df, address, latitude, longitude, threshold, map_type) ==
    [ file |-> map_filepath(address, map_type),
      map |-> create_folium_map(df, address, latitude, longitude, threshold, map_type) ]

\* lines 137-157, from the coordinates and location_in_sg on
Located(tr, address, map_type, df, thr, pc, geo, pg, loc, location_in_sg) ==
    IF render_allowed(location_in_sg)
    THEN \E fl \in filter_locations(df, loc.latitude, loc.longitude, thr) :
           IF fl # <<>>
           THEN IF call_binds(display_map_parameters,
                              display_map_arguments_found(fl, address, loc.latitude,
                                                          loc.longitude, thr, map_type))
                THEN Ran(tr \o <<"filter_locations", "print_addresses", "display_map",
                                 "create_folium_map", "save_folium_map", "show_map_in_webview">>,
                         <<>>, "", Some(thr), pc, geo, pg, Some(loc), Some(fl),
                         Some(display_map(Some(fl), address, loc.latitude, loc.longitude,
                                          thr, map_type)))
                ELSE Ran(tr \o <<"filter_locations", "print_addresses">>,
                         <<>>, "TypeError", Some(thr), pc, geo, pg, Some(loc), Some(fl), None)
           ELSE IF call_binds(display_map_parameters,
                              display_map_arguments_empty(address, loc.latitude,
                                                          loc.longitude, thr))
                THEN Ran(tr \o <<"filter_locations", "display_map", "create_folium_map",
                                 "save_folium_map", "show_map_in_webview",
                                 "display_error_message">>,
                         <<MsgNoLocations>>, "", Some(thr), pc, geo, pg, Some(loc), Some(fl),
                         Some(display_map(None, address, loc.latitude, loc.longitude, thr, "")))
                ELSE Ran(tr \o <<"filter_locations">>,
                         <<>>, "TypeError", Some(thr), pc, geo, pg, Some(loc), Some(fl), None)
    ELSE Ran(tr \o <<"display_error_message">>, <<MsgNotInSg>>, "",
             Some(thr), pc, geo, pg, Some(loc), None, None)

\* the handler of the Enter button; the texts of the address field and of the
\* proximity field and the selected map type are its inputs
process_user_input ==
    /\ program = "GeoApp"
    /\ UNCHANGED <<program, locations_file, cmd_pc>>
    /\ \E address \in Addresses, text \in Texts, map_type \in MapTypes :
        /\ input_address' = address
        /\ threshold_text' = text
        /\ LET message == check_user_input(address, text)
           IN  IF message # ""
               THEN /\ Ran(<<"check_user_input", "display_error_message">>, <<message>>, "",
                           None, None, None, None, None, None, None)
                    /\ UNCHANGED <<location_data, nlp>>
               ELSE LET thr == float(text)
                        df == DataFrame(locations_file)
                        pc == extract_postal_code(address)
                        t0 == <<"check_user_input", "load_location_data", "load_spacy_model",
                                "extract_postal_code", "address_to_lat_long:geopy">>
                        t1 == t0 \o <<"check_location_in_sg">>
                    IN  /\ nlp' = TRUE
                        /\ \E geo \in GeopyAnswers :
                             IF ~has_location(geo)
                             THEN Ran(t0 \o <<"display_error_message">>, <<MsgNoCoordinates>>,
                                      "", Some(thr), pc, geo, None, None, None, None)
                             ELSE IF geo = None
                             THEN \* line 128: attribute access on None
                                  Ran(t0, <<>>, "AttributeError",
                                      Some(thr), pc, geo, None, None, None, None)
                             ELSE IF fallback_needed(check_location_in_sg(geo[1].latitude,
                                                                          geo[1].longitude))
                             THEN \E pg \in PgeocodeAnswers :
                                    IF pg = None
                                    THEN \* line 134: attribute access on None
                                         Ran(t1 \o <<"address_to_lat_long:pgeocode">>,
                                             <<>>, "AttributeError", Some(thr), pc, geo,
                                             pg, Some(geo[1]), None, None)
                                    ELSE Located(t1 \o <<"address_to_lat_long:pgeocode",
                                                         "check_location_in_sg">>,
                                                 address, map_type, df, thr, pc, geo, pg, pg[1],
                                                 check_location_in_sg(pg[1].latitude,
                                                                      pg[1].longitude))
                             ELSE Located(t1, address, map_type, df, thr, pc, geo, None, geo[1],
                                          check_location_in_sg(geo[1].latitude,
                                                               geo[1].longitude))
                        /\ location_data' = Some(table_after_filter(df, filtered_locations'))

(***************************************************************************)
(* GeoAppCmd.run                                                           *)
(***************************************************************************)
\* lines 157-158: the table and the model are loaded before the loop
cmd_load ==
    /\ program = "GeoAppCmd"
    /\ cmd_pc = "start"
    /\ location_data' = Some(DataFrame(locations_file))
    /\ nlp' = TRUE
    /\ cmd_pc' = "prompt"
    /\ UNCHANGED <<input_address, threshold_text>>
    /\ Ran(<<"load_location_data", "load_spacy_model">>, <<>>, "",
           None, None, None, None, None, None, None)
    /\ UNCHANGED <<program, locations_file>>

\* get_user_input, lines 125-126: float() raises, the prompt is repeated
cmd_invalid_input ==
    /\ program = "GeoAppCmd"
    /\ cmd_pc = "prompt"
    /\ \E address \in Addresses, text \in Texts :
         /\ float_raises(text)
         /\ input_address' = address
         /\ threshold_text' = text
    /\ Ran(<<"get_user_input">>, <<MsgInvalidInput>>, "",
           None, None, None, None, None, None, None)
    /\ UNCHANGED <<program, locations_file, location_data, nlp, cmd_pc>>

\* the break of line 184 left out: the loop goes on after a processed query
loop_exit_never(location) == FALSE

\* line 184: break, at the end of the branch 'user_location is not None' of
\* line 170
loop_exit(location) == location # None

\* one pass of the loop of run on an input get_user_input returns
cmd_query ==
    /\ program = "GeoAppCmd"
    /\ cmd_pc = "prompt"
    /\ UNCHANGED <<program, locations_file, nlp>>
    /\ \E address \in Addresses, text \in Texts, geo \in GeopyAnswers :
         /\ ~float_raises(text)
         /\ input_address' = address
         /\ threshold_text' = text
         /\ LET thr == float(text)
                pc == extract_postal_code(address)
                t0 == <<"get_user_input", "extract_postal_code", "address_to_lat_long:geopy">>
            IN  IF geo = None
                THEN /\ Ran(t0, <<MsgNoCoordinates>>, "",
                            Some(thr), pc, geo, None, None, None, None)
                     /\ cmd_pc' = "prompt"
                ELSE LET fl == filter_locations_cmd(location_data[1], geo[1].latitude,
                                                    geo[1].longitude, thr)
                     IN  /\ cmd_pc' = IF loop_exit(geo) THEN "done" ELSE "prompt"
                         /\ IF fl # <<>>
                            THEN Ran(t0 \o <<"filter_locations", "print_addresses", "display_map",
                                             "create_folium_map", "save_folium_map",
                                             "display_pyqt_map">>,
                                     <<>>, "", Some(thr), pc, geo, None, Some(geo[1]), Some(fl),
                                     Some(create_folium_map_cmd(fl, address, geo[1].latitude,
                                                                geo[1].longitude, thr)))
                            ELSE Ran(t0 \o <<"filter_locations">>, <<MsgNoLocations>>, "",
                                     Some(thr), pc, geo, None, Some(geo[1]), Some(fl),
                                     None)
    /\ location_data' = Some(table_after_filter(location_data[1], filtered_locations'))

(***************************************************************************)
(* Specification                                                           *)
(***************************************************************************)
Next ==
    \/ process_user_input
    \/ cmd_load
    \/ cmd_invalid_input
    \/ cmd_query

Spec == Init /\ [][Next]_vars


(***************************************************************************)
(* Properties                                                              *)
(***************************************************************************)
Called(e) == \E i \in 1..Len(trace) : trace[i] = e

GEOPY == "address_to_lat_long:geopy"
PGEOCODE == "address_to_lat_long:pgeocode"

\* a run of GeoApp.process_user_input has ended in this state
GuiRan == program = "GeoApp" /\ trace # <<>>

\* the bounding box, inclusive: latitude [1.15, 1.47], longitude [103.6, 104.1]
InsideBox(loc) ==
    /\ loc.latitude # NaN /\ loc.longitude # NaN
    /\ min_lat_sg <= loc.latitude /\ loc.latitude <= max_lat_sg
    /\ min_lng_sg <= loc.longitude /\ loc.longitude <= max_lng_sg

\* distance from the coordinates of the run to a row
Dist(row) ==
    distance_km(user_location[1].latitude, user_location[1].longitude,
                row.latitude, row.longitude)

\* the threshold text is empty, or no number, or a number <= 0, or the address is empty
InvalidInput ==
    \/ input_address = ""
    \/ threshold_text = <<>>
    \/ float_raises(threshold_text)
    \/ float(threshold_text) <= 0

RejectionMessages == {MsgNoAddress, MsgNoThreshold, MsgNotPositive, MsgNotNumber}

\* C1: a submission whose threshold text is empty, is no number or is a
\* number <= 0, or whose address is empty, is rejected by check_user_input
\* with its message, and the run makes no geocoding call of either service.
C1_InvalidInputRejectedBeforeGeocoding ==
    (GuiRan /\ InvalidInput) =>
        /\ trace = <<"check_user_input", "display_error_message">>
        /\ Len(dialogs) = 1 /\ dialogs[1] \in RejectionMessages
        /\ ~Called(GEOPY) /\ ~Called(PGEOCODE)
        /\ raised = ""

\* a submission with an address and the threshold text "0" was rejected
C1_Witness ==
    /\ GuiRan /\ input_address # "" /\ threshold_text = <<"0">>
    /\ dialogs = <<MsgNotPositive>>

\* C2: when 'geopy' answers with a coordinate outside the box, 'pgeocode' is
\* called exactly once in that submission; the error "Unable to retrieve
\* valid coordinates in Singapore" is shown only after that one call; no
\* submission calls 'pgeocode' twice.
C2_FallbackExactlyOnce ==
    GuiRan =>
        /\ Count(trace, PGEOCODE) <= 1
        /\ (geopy_location # None /\ ~InsideBox(geopy_location[1]))
               => Count(trace, PGEOCODE) = 1
        /\ dialogs = <<MsgNotInSg>>
               => /\ Count(trace, PGEOCODE) = 1
                  /\ FirstIndex(trace, PGEOCODE) < FirstIndex(trace, "display_error_message")

\* 'geopy' answered outside the box, 'pgeocode' too, and the error was shown
C2_Witness ==
    /\ GuiRan /\ geopy_location # None /\ ~InsideBox(geopy_location[1])
    /\ pgeocode_location # None /\ ~InsideBox(pgeocode_location[1])
    /\ Count(trace, PGEOCODE) = 1
    /\ dialogs = <<MsgNotInSg>>

\* the run passed check_user_input and 'geopy' returned None
PrimaryNoResult ==
    GuiRan /\ proximity_threshold # None /\ Called(GEOPY) /\ geopy_location = None

C4_FallbackFailureReported ==
    (GuiRan /\ Called(PGEOCODE)
            /\ (pgeocode_location = None \/ ~InsideBox(pgeocode_location[1]))) =>
        /\ raised = ""
        /\ Len(dialogs) = 1
        /\ trace[Len(trace)] = "display_error_message"
        /\ ~Called("filter_locations")
        /\ map_file = None

\* C5: every row of the result of GeoApp.filter_locations is within the
\* threshold of the query coordinate, and the rows are in non-decreasing
\* order of that distance.
C5_WithinThresholdAndSorted ==
    (GuiRan /\ filtered_locations # None) =>
        LET fl == filtered_locations[1]
        IN  /\ \A i \in 1..Len(fl) : Dist(fl[i]) <= proximity_threshold[1]
            /\ \A i \in 1..Len(fl) : fl[i].proximity = Dist(fl[i])
            /\ \A i, j \in 1..Len(fl) : i < j => Dist(fl[i]) <= Dist(fl[j])

\* a result of two rows whose order is not the table's: the nearer row comes
\* later in the table
C5_Witness ==
    /\ GuiRan /\ filtered_locations # None
    /\ Len(filtered_locations[1]) = 2
    /\ Dist(filtered_locations[1][1]) < Dist(filtered_locations[1][2])
    /\ filtered_locations[1][1].index > filtered_locations[1][2].index

\* C6: with the coordinate inside the box and an empty filter
\* result, a map holding only the input marker and the proximity circle is
\* rendered and saved, and then "No locations found within the specified
\* proximity." is shown.
C6_EmptyResultStillRendersMap ==
    (GuiRan /\ filtered_locations = Some(<<>>)) =>
        /\ raised = ""
        /\ Called("display_map") /\ Called("save_folium_map")
        /\ map_file # None
        /\ Len(map_file[1].map.layers) = 2
        /\ map_file[1].map.layers[1].kind = "InputMarker"
        /\ map_file[1].map.layers[2].kind = "Circle"
        /\ dialogs = <<MsgNoLocations>>
        /\ FirstIndex(trace, "save_folium_map") < FirstIndex(trace, "display_error_message")

\* C7: a map is rendered only in a submission whose coordinate, the one given
\* to filter_locations and display_map, lies inside the box, bounds included.
C7_MapOnlyInsideBox ==
    (GuiRan /\ (Called("display_map") \/ map_file # None)) =>
        /\ user_location # None
        /\ InsideBox(user_location[1])
        /\ Called("filter_locations")
        /\ map_file # None
        /\ \E i \in 1..Len(map_file[1].map.layers) :
              /\ map_file[1].map.layers[i].kind = "InputMarker"
              /\ map_file[1].map.layers[i].at =
                     << <<user_location[1].latitude, user_location[1].longitude>> >>

\* a map was rendered for a coordinate on the edge of the box, which the
\* fallback geocoder gave after the primary answered outside
C7_Witness ==
    /\ GuiRan /\ Called("display_map") /\ map_file # None
    /\ Called(PGEOCODE)
    /\ user_location = pgeocode_location
    /\ user_location[1].latitude = min_lat_sg
    /\ user_location[1].longitude = max_lng_sg

\* the columns of the table a row carries
TableRow(r) ==
    [index |-> r.index, address |-> r.address, postal_code |-> r.postal_code,
     latitude |-> r.latitude, longitude |-> r.longitude]

\* C8: the result of filter_locations (of either program) holds rows of the
\* table only, and exactly the rows within the threshold: a row at a distance
\* equal to the threshold is kept, and each kept row appears once.
C8_ExactlyRowsWithinThreshold ==
    (trace # <<>> /\ filtered_locations # None) =>
        LET fl == filtered_locations[1]
            df == location_data[1]
        IN  /\ \A i \in 1..Len(fl) :
                  \E k \in 1..Len(df) : TableRow(fl[i]) = df[k]
            /\ \A k \in 1..Len(df) :
                  Cardinality({i \in 1..Len(fl) : fl[i].index = k})
                      = IF Dist(df[k]) <= proximity_threshold[1] THEN 1 ELSE 0

\* a table of two rows, one at a distance equal to the threshold, which is
\* kept, and one farther, which is not
C8_Witness ==
    /\ trace # <<>> /\ filtered_locations # None
    /\ Len(location_data[1]) = 2
    /\ Len(filtered_locations[1]) = 1
    /\ Dist(filtered_locations[1][1]) = proximity_threshold[1]

\* C9: rows of the result of GeoApp.filter_locations at the same
\* distance keep the relative order they have in the table.
C9_SortIsStable ==
    (GuiRan /\ filtered_locations # None) =>
        LET fl == filtered_locations[1]
        IN  \A i, j \in 1..Len(fl) :
               (i < j /\ Dist(fl[i]) = Dist(fl[j])) => fl[i].index < fl[j].index

\* every row of the loaded table is within the threshold of the coordinate
WholeTableWithinThreshold ==
    \A k \in 1..Len(location_data[1]) : Dist(location_data[1][k]) <= proximity_threshold[1]

\* C10: when the address yields a postal code, the coordinate is inside the
\* box and the threshold is at least the largest distance to a row of the
\* table, the result has as many rows as the table.
C10_LargeThresholdReturnsWholeTable ==
    (GuiRan /\ postal_code # None /\ user_location # None /\ InsideBox(user_location[1])
            /\ proximity_threshold # None /\ WholeTableWithinThreshold) =>
        /\ filtered_locations # None
        /\ Len(filtered_locations[1]) = Len(location_data[1])

\* a table of two rows at two different distances, both within the threshold
C10_Witness ==
    /\ GuiRan /\ postal_code # None /\ user_location # None /\ InsideBox(user_location[1])
    /\ filtered_locations # None
    /\ Len(location_data[1]) = 2
    /\ Len(filtered_locations[1]) = 2
    /\ Dist(location_data[1][1]) # Dist(location_data[1][2])

\* a run of GeoApp.process_user_input whose filter result is not empty
FoundRecords ==
    GuiRan /\ filtered_locations # None /\ filtered_locations[1] # <<>>

\* the coordinate pair of a row
Coordinates(row) == <<row.latitude, row.longitude>>

\* the coordinate pair of the run
UserCoordinates == <<user_location[1].latitude, user_location[1].longitude>>

\* the places a layer is drawn at, as a set
Places(layer) == {layer.at[i] : i \in 1..Len(layer.at)}

\* C11: a submission with a non-empty filter result saves exactly one map
\* file; its map holds the record layer of the selected style only, drawn
\* from the filtered rows only (Heat Density: one heat layer over the rows;
\* Clusters: one clustered marker per row; Proximity: one marker per group of
\* rows at the same coordinates and a line to every nearest row), then the
\* input marker and the circle of radius threshold * 1000 at the coordinate
\* of the run.
C11_OneMapOfSelectedStyle ==
    FoundRecords =>
        /\ raised = ""
        /\ Count(trace, "save_folium_map") = 1
        /\ Count(trace, "create_folium_map") = 1
        /\ map_file # None
        /\ LET fl == filtered_locations[1]
               style == map_file[1].file[3]
               layers == map_file[1].map.layers
               n == Len(layers)
               kinds == [i \in 1..n |-> layers[i].kind]
           IN  /\ map_file[1].file = <<"map", input_address, style>>
               /\ style \in MapTypes
               /\ n >= 3
               /\ layers[n - 1] = Layer("InputMarker", <<UserCoordinates>>, 0)
               /\ layers[n] = Layer("Circle", <<UserCoordinates>>,
                                    proximity_threshold[1] * 1000)
               /\ style = "Heat Density" =>
                     /\ kinds = <<"HeatMap", "InputMarker", "Circle">>
                     /\ layers[1].at = [i \in 1..Len(fl) |-> Coordinates(fl[i])]
               /\ style = "Clusters" =>
                     /\ kinds = <<"MarkerCluster", "InputMarker", "Circle">>
                     /\ layers[1].at = [i \in 1..Len(fl) |-> Coordinates(fl[i])]
               /\ style = "Proximity" =>
                     /\ kinds = <<"Markers", "PolyLines", "InputMarker", "Circle">>
                     /\ Places(layers[1]) = {Coordinates(fl[i]) : i \in 1..Len(fl)}
                     /\ \A i, j \in 1..Len(layers[1].at) :
                           layers[1].at[i] = layers[1].at[j] => i = j
                     /\ Places(layers[2]) =
                           {Coordinates(fl[i]) : i \in
                               {k \in 1..Len(fl) : \A j \in 1..Len(fl) : Dist(fl[k]) <= Dist(fl[j])}}

\* a Clusters map over two filtered rows at the same coordinates: the cluster
\* holds a marker for each of them
C11_Witness ==
    /\ FoundRecords
    /\ map_file # None
    /\ map_file[1].file[3] = "Clusters"
    /\ Len(filtered_locations[1]) = 2
    /\ Coordinates(filtered_locations[1][1]) = Coordinates(filtered_locations[1][2])
    /\ Len(map_file[1].map.layers[1].at) = 2

\* C12: the table is loaded from the file once, at the start of GeoApp and
\* before the first submission is processed: after any submission the table
\* is in memory, and the submission itself has not loaded it.
C12_LoadedOnceAtStart ==
    GuiRan =>
        /\ location_data # None
        /\ ~Called("load_location_data")

\* C13: in GeoApp.process_user_input and in GeoAppCmd.run, every query that
\* reaches a geocoding call or filter_locations has a proximity threshold
\* strictly greater than 0.
C13_ThresholdPositiveWhenQueried ==
    (Called(GEOPY) \/ Called(PGEOCODE) \/ Called("filter_locations")) =>
        /\ proximity_threshold # None
        /\ proximity_threshold[1] > 0

\* C14: once loaded, self.location_data holds the rows of the file, with the
\* four columns of the file under the range index and in the order of the
\* file, after every submission: the filter, the 'proximity' column, the
\* in-place sort and the map rendering leave it as it was loaded.
C14_TableUnchanged ==
    location_data # None =>
        /\ Len(location_data[1]) = Len(locations_file)
        /\ \A i \in 1..Len(locations_file) :
              location_data[1][i] =
                  [index |-> i,
                   address |-> locations_file[i].address,
                   postal_code |-> locations_file[i].postal_code,
                   latitude |-> locations_file[i].latitude,
                   longitude |-> locations_file[i].longitude]

\* a submission whose result is the two rows of the table in the other
\* order, the nearer row being the second row of the table
C14_Witness ==
    /\ GuiRan /\ location_data # None /\ filtered_locations # None
    /\ Len(location_data[1]) = 2
    /\ Len(filtered_locations[1]) = 2
    /\ filtered_locations[1][1].index = 2
    /\ filtered_locations[1][1].proximity < filtered_locations[1][2].proximity
    /\ Called("save_folium_map")

\* the answer of the last geocoder called in the run
LastGeocoded == IF Called(PGEOCODE) THEN pgeocode_location ELSE geopy_location

\* the indices of the rows of the file within the threshold of a location
IndicesWithin(loc, threshold) ==
    {k \in 1..Len(locations_file) :
        distance_km(loc.latitude, loc.longitude,
                    locations_file[k].latitude, locations_file[k].longitude) <= threshold}

\* C15: in GeoApp.process_user_input, when 'geopy' answers inside the box
\* 'pgeocode' is not called; and the coordinate filter_locations and
\* display_map work on is the answer of the last geocoder called in the
\* submission: the rows of the result are the rows within the threshold of
\* that answer, their proximity is the distance to it, and the input marker
\* and the circle of the map are drawn at it.
C15_LastGeocoderCoordinateUsed ==
    GuiRan =>
        /\ (geopy_location # None /\ InsideBox(geopy_location[1])) => ~Called(PGEOCODE)
        /\ Called(PGEOCODE) =>
              /\ geopy_location # None
              /\ FirstIndex(trace, GEOPY) < FirstIndex(trace, PGEOCODE)
        /\ Called("filter_locations") =>
              /\ LastGeocoded # None
              /\ FirstIndex(trace, GEOPY) < FirstIndex(trace, "filter_locations")
              /\ Called(PGEOCODE) =>
                    FirstIndex(trace, PGEOCODE) < FirstIndex(trace, "filter_locations")
              /\ filtered_locations # None
              /\ LET fl == filtered_locations[1]
                     loc == LastGeocoded[1]
                 IN  /\ {fl[i].index : i \in 1..Len(fl)}
                            = IndicesWithin(loc, proximity_threshold[1])
                     /\ \A i \in 1..Len(fl) :
                           fl[i].proximity = distance_km(loc.latitude, loc.longitude,
                                                         fl[i].latitude, fl[i].longitude)
        /\ Called("display_map") =>
              /\ LastGeocoded # None
              /\ map_file # None
              /\ LET layers == map_file[1].map.layers
                     at == << <<LastGeocoded[1].latitude, LastGeocoded[1].longitude>> >>
                 IN  /\ \E i \in 1..Len(layers) :
                            layers[i].kind = "InputMarker" /\ layers[i].at = at
                     /\ \E i \in 1..Len(layers) :
                            layers[i].kind = "Circle" /\ layers[i].at = at
                     /\ \A i \in 1..Len(layers) :
                            layers[i].kind \in {"InputMarker", "Circle"} => layers[i].at = at

\* 'geopy' answered outside the box, 'pgeocode' answered three steps north of
\* the corner of the box, and the one row within the threshold of the
\* answer of 'pgeocode' was found and drawn
C15_Witness ==
    /\ GuiRan /\ Called(PGEOCODE) /\ Called("display_map")
    /\ geopy_location # None /\ ~InsideBox(geopy_location[1])
    /\ pgeocode_location # None
    /\ pgeocode_location[1].latitude = min_lat_sg + 3
    /\ filtered_locations # None /\ Len(filtered_locations[1]) = 1
    /\ Len(location_data[1]) = 2
    /\ map_file # None

\* a pass of the loop of GeoAppCmd.run on an input get_user_input returned
\* has ended in this state
CmdQueried == program = "GeoAppCmd" /\ Called(GEOPY)

\* C16: GeoAppCmd.run prompts again after a query whose geocoding returns no
\* result, and stops after the first query whose geocoding succeeds: that
\* query is filtered once, a map is rendered when and only when the result
\* is not empty, an empty result prints its message, and run does nothing
\* after it.
C16_StopsAfterFirstGeocodedQuery ==
    /\ (CmdQueried /\ geopy_location = None) =>
          /\ cmd_pc = "prompt"
          /\ ENABLED cmd_query
          /\ dialogs = <<MsgNoCoordinates>>
          /\ ~Called("filter_locations")
          /\ ~Called("display_map")
          /\ map_file = None
    /\ (CmdQueried /\ geopy_location # None) =>
          /\ cmd_pc = "done"
          /\ Count(trace, GEOPY) = 1
          /\ Count(trace, "filter_locations") = 1
          /\ filtered_locations # None
          /\ filtered_locations[1] # <<>> =>
                /\ Count(trace, "display_map") = 1
                /\ Count(trace, "save_folium_map") = 1
                /\ map_file # None
                /\ dialogs = <<>>
          /\ filtered_locations[1] = <<>> =>
                /\ ~Called("display_map")
                /\ ~Called("save_folium_map")
                /\ map_file = None
                /\ dialogs = <<MsgNoLocations>>
    /\ (program = "GeoAppCmd" /\ cmd_pc = "done") =>
          /\ CmdQueried /\ geopy_location # None
          /\ ~ENABLED Next

\* run has stopped after a query that was geocoded and whose result was empty:
\* the message was printed and no map was rendered
C16_Witness ==
    /\ CmdQueried /\ cmd_pc = "done"
    /\ geopy_location # None
    /\ Len(location_data[1]) = 2
    /\ filtered_locations = Some(<<>>)
    /\ dialogs = <<MsgNoLocations>>
    /\ map_file = None


====
